---- MODULE Spec2Model ----
(***************************************************************************)
(* Model of FINE/subclasses/storageExt.py: the StorageExt asset (its       *)
(* constructor, the selection of the active time-series view, the          *)
(* aggregation round trip) and the StorageExtModel formulation steps       *)
(* (declareSets, declareVariables, declareComponentConstraints with the    *)
(* precise-TSA state-of-charge constraints).                               *)
(*                                                                         *)
(* One storage asset is kept in componentsDict.  Constraints are kept      *)
(* symbolically: a constraint instance is a record naming the variables,   *)
(* the decay exponent, the relation and the terms of the right-hand side.  *)
(***************************************************************************)
EXTENDS Integers, FiniteSets, Sequences, TLC

\* ------------------------------------------------------------------ bounds
NumLocs == 2
NumPeriods == 2
NumTypicalPeriods == 2
NumTimeSteps == 2
HoursPerTimeStep == 2
\* selfDischarge of the asset, in thousandths per hour
SelfDischargePerMille == 10
\* the resolution of the selfDischarge values the decay factor is evaluated
\* for: selfDischarge is n / DecayDenominator with 0 <= n < DecayDenominator
DecayDenominator == 100

Locs == 1..NumLocs
\* esM.periods: the real periods; esM.timeStepsPerPeriod
Periods == 0..(NumPeriods - 1)
TypicalPeriods == 0..(NumTypicalPeriods - 1)
TimeStepsPerPeriod == 0..(NumTimeSteps - 1)
\* esM.interTimeStepsPeriods: the period boundaries
InterPeriods == 0..NumPeriods

compName == "stor1"
abbrvName == "stor"

\* ------------------------------------------------------------------ series
\* The three operation classes with the name prefix each uses as key of the
\* aggregation input and output.
Classes == {"charge", "discharge", "stateOfCharge"}
Kinds == {"Max", "Fix"}

rateName(cls) ==
    CASE cls = "charge" -> "chargeRate_"
      [] cls = "discharge" -> "dischargeRate_"
      [] cls = "stateOfCharge" -> "_SOCRate_"

\* Python's None, and the value standing for a raised KeyError.
None == [tag |-> "None"]
KeyError == [tag |-> "KeyError"]

\* The time series a caller passes for class cls, kind k: indexed by time
\* step, one column per location; its content is named after the argument.
RawSeries(cls, k) ==
    [tag |-> "ts", index |-> "TimeStep", columns |-> "loc",
     data |-> <<cls, k>>, aggregated |-> FALSE]

\* utils.setFormattedTimeSeries: None stays None, a series is re-indexed by
\* (Period, TimeStep).
setFormattedTimeSeries(ts) ==
    IF ts = None THEN None ELSE [ts EXCEPT !.index = "Period_TimeStep"]

\* ------------------------------------------------------------- constructor
\* The constructor arguments the model varies.
ArgSets ==
    [chargeOpRateMax : {None, RawSeries("charge", "Max")},
     chargeOpRateFix : {None, RawSeries("charge", "Fix")},
     dischargeOpRateMax : {None, RawSeries("discharge", "Max")},
     dischargeOpRateFix : {None, RawSeries("discharge", "Fix")},
     stateOfChargeOpRateMax : {None, RawSeries("stateOfCharge", "Max")},
     stateOfChargeOpRateFix : {None, RawSeries("stateOfCharge", "Fix")},
     doPreciseTsaModeling : BOOLEAN,
     isPeriodicalStorage : BOOLEAN,
     hasCapacityVariable : BOOLEAN]

NoSeries == [k \in Kinds |-> None]

\* Storage.__init__ (base class): stores the flags, resolves a Max/Fix
\* conflict of the charge and of the discharge class (Fix wins, Max is
\* discarded), stores the formatted full series and leaves the aggregated
\* and the active series None.
StorageInit(a) ==
    LET cMax == IF a.chargeOpRateMax # None /\ a.chargeOpRateFix # None
                THEN None ELSE a.chargeOpRateMax
        dMax == IF a.dischargeOpRateMax # None /\ a.dischargeOpRateFix # None
                THEN None ELSE a.dischargeOpRateMax
    IN  [doPreciseTsaModeling |-> a.doPreciseTsaModeling,
         isPeriodicalStorage |-> a.isPeriodicalStorage,
         hasCapacityVariable |-> a.hasCapacityVariable,
         selfDischarge |-> SelfDischargePerMille,
         full |-> [cls \in Classes |->
                     CASE cls = "charge" ->
                            [k \in Kinds |-> setFormattedTimeSeries(
                                IF k = "Max" THEN cMax ELSE a.chargeOpRateFix)]
                       [] cls = "discharge" ->
                            [k \in Kinds |-> setFormattedTimeSeries(
                                IF k = "Max" THEN dMax ELSE a.dischargeOpRateFix)]
                       [] OTHER -> NoSeries],
         aggregated |-> [cls \in Classes |-> NoSeries],
         active |-> [cls \in Classes |-> NoSeries]]

\* A slip of lines 73-76: both series are kept.
SOCMaxAfterConflictKeepsBoth(a) ==
    a.stateOfChargeOpRateMax

\* Lines 73-76: the state-of-charge Max series the constructor goes on with.
SOCMaxAfterConflict(a) ==
    IF a.stateOfChargeOpRateMax # None /\ a.stateOfChargeOpRateFix # None
    THEN None ELSE a.stateOfChargeOpRateMax

\* A slip of lines 77-78: the flag is left as passed.
PreciseAfterInitAsPassed(a, socMax) ==
    a.doPreciseTsaModeling

\* Lines 77-78: doPreciseTsaModeling after the constructor.
PreciseAfterInit(a, socMax) ==
    IF (socMax # None \/ a.stateOfChargeOpRateFix # None)
       /\ ~a.doPreciseTsaModeling
    THEN TRUE ELSE a.doPreciseTsaModeling

\* A slip of lines 86-87: the flag is left as passed.
PeriodicalAfterInitAsPassed(a) ==
    a.isPeriodicalStorage

\* Lines 86-87: isPeriodicalStorage after the constructor.
PeriodicalAfterInit(a) ==
    IF a.stateOfChargeOpRateFix # None /\ ~a.isPeriodicalStorage
    THEN TRUE ELSE a.isPeriodicalStorage

\* The warnings of lines 75, 79, 83 and 88.
InitWarnings(a, socMax) ==
    (IF a.stateOfChargeOpRateMax # None /\ a.stateOfChargeOpRateFix # None
     THEN {"stateOfChargeOpRateMaxSetToNone"} ELSE {})
    \cup
    (IF (socMax # None \/ a.stateOfChargeOpRateFix # None)
        /\ ~a.doPreciseTsaModeling
     THEN {"modelingSetToPrecise"} ELSE {})
    \cup
    (IF socMax # None THEN {"stateOfChargeOpRateMaxCaution"} ELSE {})
    \cup
    (IF a.stateOfChargeOpRateFix # None /\ ~a.isPeriodicalStorage
     THEN {"setToIsPeriodicalStorage"} ELSE {})

\* StorageExt.__init__, lines 60-100: the asset after construction.
StorageExtInit(a) ==
    LET base == StorageInit(a)
        socMax == SOCMaxAfterConflict(a)
    IN  [base EXCEPT
           !.doPreciseTsaModeling = PreciseAfterInit(a, socMax),
           !.isPeriodicalStorage = PeriodicalAfterInit(a),
           !.full["stateOfCharge"] =
               [k \in Kinds |-> setFormattedTimeSeries(
                   IF k = "Max" THEN socMax ELSE a.stateOfChargeOpRateFix)],
           !.aggregated["stateOfCharge"] = NoSeries,
           !.active["stateOfCharge"] = NoSeries]

\* ------------------------------------------------------------------- state
VARIABLES
    args,      \* constructor arguments of the asset (see KeptArgs)
    warnings,  \* the warnings issued by the constructor
    comp,      \* componentsDict[compName]: the StorageExt asset
    esM,       \* the energy system model: clustering flag, periodsOrder
    pyM,       \* the optimization model container
    lastOp     \* the operation that ran last, with its argument

vars == <<args, warnings, comp, esM, pyM, lastOp>>

\* The model container before anything is declared in it.  stage is the
\* step of the optimization run that was completed last; derivations counts
\* the derivations of the index sets in this container.
NoModel ==
    [stage |-> "none", hasTSA |-> FALSE, sets |-> None, derivations |-> 0,
     variables |-> {}, declared |-> {}, constraints |-> {}, equalities |-> {}]

\* The arguments the state keeps for reference: those that lines 73-100
\* decide on.
KeptArgs(a) ==
    [stateOfChargeOpRateMax |-> a.stateOfChargeOpRateMax,
     stateOfChargeOpRateFix |-> a.stateOfChargeOpRateFix,
     doPreciseTsaModeling |-> a.doPreciseTsaModeling,
     isPeriodicalStorage |-> a.isPeriodicalStorage]

Init ==
    /\ \E a \in ArgSets :
         /\ args = KeptArgs(a)
         /\ comp = StorageExtInit(a)
         /\ warnings = InitWarnings(a, SOCMaxAfterConflict(a))
    /\ esM = [isTimeSeriesDataClustered |-> FALSE,
              periodsOrder |-> [p \in {0} |-> 0]]
    /\ pyM = NoModel
    /\ lastOp = [op |-> "__init__"]

\* ------------------------------------------------------- time-series views
\* Lines 121-122: the active charge series.
ActiveCharge(c, hasTSA) ==
    [k \in Kinds |-> IF hasTSA THEN c.aggregated["charge"][k]
                     ELSE c.full["charge"][k]]

\* Lines 123-124: the active discharge series; under TSA they are read from
\* aggregatedChargeOpRateMax and aggregatedChargeOpRateFix.
ActiveDischarge(c, hasTSA) ==
    [k \in Kinds |-> IF hasTSA THEN c.aggregated["charge"][k]
                     ELSE c.full["discharge"][k]]

\* A slip of lines 125-128: the state-of-charge view is chosen the other way
\* round.
ActiveStateOfChargeSwapped(c, hasTSA) ==
    [k \in Kinds |-> IF hasTSA THEN c.full["stateOfCharge"][k]
                     ELSE c.aggregated["stateOfCharge"][k]]

\* Lines 125-128: the active state-of-charge series.
ActiveStateOfCharge(c, hasTSA) ==
    [k \in Kinds |-> IF hasTSA THEN c.aggregated["stateOfCharge"][k]
                     ELSE c.full["stateOfCharge"][k]]

\* Lines 121-128: the six active series attributes after the assignments.
ActiveViews(c, hasTSA) ==
    [cls \in Classes |->
        CASE cls = "charge" -> ActiveCharge(c, hasTSA)
          [] cls = "discharge" -> ActiveDischarge(c, hasTSA)
          [] OTHER -> ActiveStateOfCharge(c, hasTSA)]

\* StorageExt.setTimeSeriesData(hasTSA), lines 120-128.
setTimeSeriesData(hasTSA) ==
    /\ comp' = [comp EXCEPT !.active = ActiveViews(comp, hasTSA)]
    /\ lastOp' = [op |-> "setTimeSeriesData", hasTSA |-> hasTSA]
    /\ UNCHANGED <<args, warnings, esM>>

\* --------------------------------------------------------------- aggregation
EmptyData == [x \in {} |-> None]

\* Component.prepareTSAInput: the Fix series of a class, or else its Max
\* series, is contributed under the class's name prefix.
prepareTSAInput(rateFix, rateMax, name, data) ==
    LET data_ == IF rateFix # None THEN rateFix ELSE rateMax
    IN  IF data_ # None THEN data @@ (name :> data_) ELSE data

\* StorageExt.getDataForTimeSeriesAggregation, lines 130-138: the charge and
\* discharge classes contribute their full series, the state-of-charge class
\* the series of the active attributes (line 134).
getDataForTimeSeriesAggregation(c) ==
    LET d1 == prepareTSAInput(c.full["charge"]["Fix"], c.full["charge"]["Max"],
                              rateName("charge"), EmptyData)
        d2 == prepareTSAInput(c.full["discharge"]["Fix"],
                              c.full["discharge"]["Max"],
                              rateName("discharge"), d1)
    IN  prepareTSAInput(c.active["stateOfCharge"]["Fix"],
                        c.active["stateOfCharge"]["Max"],
                        rateName("stateOfCharge"), d2)

\* The aggregation collaborator: every contributed series comes back
\* aggregated under the key it was contributed with.
TSAResult(input) ==
    [key \in DOMAIN input |-> [input[key] EXCEPT !.aggregated = TRUE]]

\* Component.getTSAOutput: None for a class without a series, else the
\* columns of data under the class's name prefix (a KeyError when data has
\* no such columns).
getTSAOutput(rate, name, data) ==
    IF rate = None THEN None
    ELSE IF name \in DOMAIN data THEN data[name] ELSE KeyError

\* The assignments of lines 142-149, in order.
AggregationOrder ==
    << <<"charge", "Fix">>, <<"charge", "Max">>,
       <<"discharge", "Fix">>, <<"discharge", "Max">>,
       <<"stateOfCharge", "Fix">>, <<"stateOfCharge", "Max">> >>

\* The aggregated attributes after the assignments i.. of lines 142-149; an
\* assignment whose right-hand side raises ends the method.
RECURSIVE AggregatedFrom(_, _, _, _)
AggregatedFrom(c, agg, data, i) ==
    IF i > Len(AggregationOrder) THEN [aggregated |-> agg, raised |-> FALSE]
    ELSE LET cls == AggregationOrder[i][1]
             k == AggregationOrder[i][2]
             out == getTSAOutput(c.full[cls][k], rateName(cls), data)
         IN  IF out = KeyError THEN [aggregated |-> agg, raised |-> TRUE]
             ELSE AggregatedFrom(c, [agg EXCEPT ![cls][k] = out], data, i + 1)

\* StorageExt.setAggregatedTimeSeriesData(data), lines 140-149, called by the
\* clustering step with the aggregation result of the data the asset
\* contributed; the clustering step also fixes the order po of the periods
\* and completes only when no asset raised.
setAggregatedTimeSeriesData(po) ==
    LET data == TSAResult(getDataForTimeSeriesAggregation(comp))
        r == AggregatedFrom(comp, comp.aggregated, data, 1)
    IN  /\ comp' = [comp EXCEPT !.aggregated = r.aggregated]
        /\ esM' = IF r.raised THEN esM
                  ELSE [isTimeSeriesDataClustered |-> TRUE,
                        periodsOrder |-> po]
        /\ lastOp' = [op |-> "setAggregatedTimeSeriesData",
                      raised |-> r.raised]
        /\ UNCHANGED <<args, warnings>>

\* ---------------------------------------------------------- optimization run
\* The order of the steps of a run: the container is created with hasTSA,
\* every asset selects its view, then the sets, the variables and the
\* constraints are declared.  Clustering and the creation of a container
\* happen between runs.
RunIdle == pyM.stage \in {"none", "constraints"}

RunAt(stage) == pyM.stage = stage

\* pyM = pyomo.ConcreteModel(); pyM.hasTSA = timeSeriesAggregation.  A run
\* with aggregation needs clustered time series.
ConcreteModel(hasTSA) ==
    /\ RunIdle
    /\ hasTSA => esM.isTimeSeriesDataClustered
    /\ pyM' = [NoModel EXCEPT !.stage = "created", !.hasTSA = hasTSA]
    /\ lastOp' = [op |-> "ConcreteModel", hasTSA |-> hasTSA]
    /\ UNCHANGED <<args, warnings, comp, esM>>

\* The run's call comp.setTimeSeriesData(pyM.hasTSA).
selectView ==
    /\ RunAt("created")
    /\ setTimeSeriesData(pyM.hasTSA)
    /\ pyM' = [pyM EXCEPT !.stage = "view"]

\* The clustering step between runs; the time series are aggregated once.
cluster ==
    /\ RunIdle
    /\ ~esM.isTimeSeriesDataClustered
    /\ \E po \in [Periods -> TypicalPeriods] : setAggregatedTimeSeriesData(po)
    /\ UNCHANGED pyM

\* getattr(compDict[compName], name) for the six active series attributes.
getattr(c, name) ==
    CASE name = "chargeOpRateMax" -> c.active["charge"]["Max"]
      [] name = "chargeOpRateFix" -> c.active["charge"]["Fix"]
      [] name = "dischargeOpRateMax" -> c.active["discharge"]["Max"]
      [] name = "dischargeOpRateFix" -> c.active["discharge"]["Fix"]
      [] name = "stateOfChargeOpRateMax" -> c.active["stateOfCharge"]["Max"]
      [] name = "stateOfChargeOpRateFix" -> c.active["stateOfCharge"]["Fix"]

\* pyM.operationVarSet_stor: the (location, asset) pairs of the domain.
operationVarSet == Locs \X {compName}

\* ComponentModel.declareOperationModeSets: the five index sets of one
\* operation class.  1: no series (rate-bound); 2: Fix series, capacity
\* variable; 3: Max series, capacity variable; 4: Fix series, no capacity
\* variable; 5: Max series, no capacity variable.
declareOperationModeSets(c, rateMax, rateFix) ==
    [i \in 1..5 |->
       {pair \in operationVarSet :
          CASE i = 1 -> getattr(c, rateMax) = None /\ getattr(c, rateFix) = None
            [] i = 2 -> c.hasCapacityVariable /\ getattr(c, rateFix) # None
            [] i = 3 -> c.hasCapacityVariable /\ getattr(c, rateMax) # None
            [] i = 4 -> ~c.hasCapacityVariable /\ getattr(c, rateFix) # None
            [] i = 5 -> ~c.hasCapacityVariable /\ getattr(c, rateMax) # None}]

\* StorageModel.declareSets (base class): the charge and discharge sets.
StorageModelSets(c) ==
    ("chargeOpConstrSet" :>
        declareOperationModeSets(c, "chargeOpRateMax", "chargeOpRateFix"))
    @@ ("dischargeOpConstrSet" :>
        declareOperationModeSets(c, "dischargeOpRateMax", "dischargeOpRateFix"))

\* A slip of lines 174-175: the Max attribute is passed for both names.
StateOfChargeSetsMaxTwice(c) ==
    declareOperationModeSets(c, "stateOfChargeOpRateMax",
                             "stateOfChargeOpRateMax")

\* A slip of lines 174-175: the two attribute names in the other order.
StateOfChargeSetsNamesSwapped(c) ==
    declareOperationModeSets(c, "stateOfChargeOpRateFix",
                             "stateOfChargeOpRateMax")

\* Lines 174-175: the state-of-charge sets.
StateOfChargeSets(c) ==
    declareOperationModeSets(c, "stateOfChargeOpRateMax",
                             "stateOfChargeOpRateFix")

\* StorageExtModel.declareSets, lines 168-175.
declareSets ==
    /\ RunAt("view")
    /\ pyM' = [pyM EXCEPT
                 !.stage = "sets",
                 !.derivations = @ + 1,
                 !.sets = StorageModelSets(comp)
                          @@ ("stateOfChargeOpConstrSet" :>
                                StateOfChargeSets(comp))]
    /\ lastOp' = [op |-> "declareSets"]
    /\ UNCHANGED <<args, warnings, comp, esM>>

\* StorageExtModel.declareVariables, lines 181-184: the variables of the
\* base class; the inter-period state of charge exists under TSA only.
declareVariables ==
    /\ RunAt("sets")
    /\ pyM' = [pyM EXCEPT !.stage = "variables", !.variables =
                 {"cap", "chargeOp", "dischargeOp", "stateOfCharge"}
                 \cup (IF pyM.hasTSA THEN {"stateOfChargeInterPeriods"}
                       ELSE {})]
    /\ lastOp' = [op |-> "declareVariables"]
    /\ UNCHANGED <<args, warnings, comp, esM>>

\* ------------------------------------------------ precise TSA constraints
\* A slip of line 204: the intra-period term indexed by the real period.
PreciseLhsRealPeriod(c, loc, pInter, t) ==
    [inter |-> <<loc, compName, pInter>>,
     decay |-> [selfDischarge |-> c.selfDischarge,
                exponent |-> t * HoursPerTimeStep],
     intra |-> <<loc, compName, pInter, t>>]

\* The left-hand side shared by SOCMaxPrecise1..5, lines 202-204:
\* SOCinter[loc, compName, pInter] * (1 - selfDischarge) ** (t * h)
\*   + SOC[loc, compName, periodsOrder[pInter], t]
PreciseLhs(c, loc, pInter, t) ==
    [inter |-> <<loc, compName, pInter>>,
     decay |-> [selfDischarge |-> c.selfDischarge,
                exponent |-> t * HoursPerTimeStep],
     intra |-> <<loc, compName, esM.periodsOrder[pInter], t>>]

\* One constraint instance.
Constr(name, c, loc, pInter, t, rel, cap, term, series) ==
    [name |-> name, loc |-> loc, compName |-> compName, pInter |-> pInter,
     t |-> t, lhs |-> PreciseLhs(c, loc, pInter, t), rel |-> rel,
     capVar |-> cap, term |-> term, series |-> series,
     at |-> IF series = None THEN <<>>
            ELSE <<loc, esM.periodsOrder[pInter], t>>]

\* getattr(pyM, constrSetName + i + '_' + abbrvName)
constrSet(name, i) == pyM.sets[name][i]

\* operationModeSOCwithTSA1, lines 190-209.
operationModeSOCwithTSA1(c) ==
    IF ~c.doPreciseTsaModeling THEN {}
    ELSE {Constr("ConstrSOCMaxPrecise1", c, pair[1], p, t, "<=", TRUE,
                 "stateOfChargeMax", None) :
            pair \in constrSet("stateOfChargeOpConstrSet", 1),
            p \in DOMAIN esM.periodsOrder, t \in TimeStepsPerPeriod}

\* A slip of lines 226-227: the Fix series bounds instead of fixing.
operationModeSOCwithTSA2AsBound(c) ==
    IF ~c.doPreciseTsaModeling THEN {}
    ELSE {Constr("ConstrSOCMaxPrecise2", c, pair[1], p, t, "<=", TRUE,
                 "series", getattr(c, "stateOfChargeOpRateFix")) :
            pair \in constrSet("stateOfChargeOpConstrSet", 2),
            p \in DOMAIN esM.periodsOrder, t \in TimeStepsPerPeriod}

\* operationModeSOCwithTSA2, lines 211-231.
operationModeSOCwithTSA2(c) ==
    IF ~c.doPreciseTsaModeling THEN {}
    ELSE {Constr("ConstrSOCMaxPrecise2", c, pair[1], p, t, "==", TRUE,
                 "series", getattr(c, "stateOfChargeOpRateFix")) :
            pair \in constrSet("stateOfChargeOpConstrSet", 2),
            p \in DOMAIN esM.periodsOrder, t \in TimeStepsPerPeriod}

\* operationModeSOCwithTSA3, lines 233-253.
operationModeSOCwithTSA3(c) ==
    IF ~c.doPreciseTsaModeling THEN {}
    ELSE {Constr("ConstrSOCMaxPrecise3", c, pair[1], p, t, "<=", TRUE,
                 "series", getattr(c, "stateOfChargeOpRateMax")) :
            pair \in constrSet("stateOfChargeOpConstrSet", 3),
            p \in DOMAIN esM.periodsOrder, t \in TimeStepsPerPeriod}

\* operationModeSOCwithTSA4, lines 255-271.
operationModeSOCwithTSA4(c) ==
    IF ~c.doPreciseTsaModeling THEN {}
    ELSE {Constr("ConstrSOCMaxPrecise4", c, pair[1], p, t, "==", FALSE,
                 "series", getattr(c, "stateOfChargeOpRateFix")) :
            pair \in constrSet("stateOfChargeOpConstrSet", 4),
            p \in DOMAIN esM.periodsOrder, t \in TimeStepsPerPeriod}

\* operationModeSOCwithTSA5, lines 273-289.
operationModeSOCwithTSA5(c) ==
    IF ~c.doPreciseTsaModeling THEN {}
    ELSE {Constr("ConstrSOCMaxPrecise5", c, pair[1], p, t, "<=", FALSE,
                 "series", getattr(c, "stateOfChargeOpRateMax")) :
            pair \in constrSet("stateOfChargeOpConstrSet", 5),
            p \in DOMAIN esM.periodsOrder, t \in TimeStepsPerPeriod}

\* StorageModel.equalInterSOC (base class): for a periodical storage the
\* inter-period state of charge of each real period equals that of the next
\* period boundary.
equalInterSOC(c) ==
    IF ~c.isPeriodicalStorage THEN {}
    ELSE {[loc |-> pair[1], compName |-> pair[2], left |-> p, right |-> p + 1] :
            pair \in operationVarSet, p \in DOMAIN esM.periodsOrder}

\* -------------------------------------------- declareComponentConstraints
\* A call of a constraint-declaring method of the base class.
Call(method, constrName, opVarName) ==
    [method |-> method, constrName |-> constrName, opVarName |-> opVarName]

OperationModes(constrName, opVarName) ==
    {Call(m, constrName, opVarName) :
       m \in {"operationMode1", "operationMode2", "operationMode3",
              "operationMode4", "operationMode5"}}

\* Lines 299-355: the calls made whether or not TSA is used.
CommonCalls ==
    {Call(m, "", "") :
       m \in {"capToNbReal", "capToNbInt", "bigM", "capacityMinDec",
              "capacityFix", "designBinFix", "connectSOCs", "cyclicState",
              "cyclicLifetime"}}
    \cup OperationModes("ConstrCharge", "chargeOp")
    \cup OperationModes("ConstrDischarge", "dischargeOp")

\* Lines 357-365: the calls linking the periods under TSA.
InterPeriodCalls ==
    {Call(m, "", "") :
       m \in {"connectInterPeriodSOC", "intraSOCstart", "equalInterSOC"}}

\* A slip of lines 357-365: equalInterSOC is not called.
InterPeriodConstraintsNone(c) == {}

\* Line 365: the instances equalInterSOC declares.
InterPeriodConstraints(c) == equalInterSOC(c)

\* Lines 368-390: the state-of-charge limits without TSA.
NonTSACalls ==
    OperationModes("ConstrSOCMax", "stateOfCharge")
    \cup {Call("minSOC", "", "")}

\* Lines 392-417: the state-of-charge limits under TSA.
TSACalls ==
    {Call(m, "", "") :
       m \in {"limitSOCwithSimpleTsa", "operationModeSOCwithTSA1",
              "operationModeSOCwithTSA2", "operationModeSOCwithTSA3",
              "operationModeSOCwithTSA4", "operationModeSOCwithTSA5",
              "minSOCwithTSAprecise"}}

\* A slip of line 368: the non-TSA family is declared under TSA as well.
StateOfChargeCallsBoth(hasTSA) ==
    IF hasTSA THEN NonTSACalls \cup TSACalls ELSE NonTSACalls

\* Lines 368-417: the family of state-of-charge limits of a run.
StateOfChargeCalls(hasTSA) ==
    IF hasTSA THEN TSACalls ELSE NonTSACalls

\* The instances of the precise constraints, lines 403-413.
PreciseConstraints(c) ==
    operationModeSOCwithTSA1(c) \cup operationModeSOCwithTSA2(c)
    \cup operationModeSOCwithTSA3(c) \cup operationModeSOCwithTSA4(c)
    \cup operationModeSOCwithTSA5(c)

\* A formulation that also writes the precise-modelling flag of the asset.
declareComponentConstraintsSettingPrecise ==
    /\ RunAt("variables")
    /\ pyM' = [pyM EXCEPT
         !.stage = "constraints",
         !.declared = CommonCalls
                      \cup (IF pyM.hasTSA THEN InterPeriodCalls ELSE {})
                      \cup StateOfChargeCalls(pyM.hasTSA),
         !.constraints = IF pyM.hasTSA THEN PreciseConstraints(comp) ELSE {},
         !.equalities = IF pyM.hasTSA THEN InterPeriodConstraints(comp)
                        ELSE {}]
    /\ comp' = [comp EXCEPT !.doPreciseTsaModeling = TRUE]
    /\ lastOp' = [op |-> "declareComponentConstraints"]
    /\ UNCHANGED <<args, warnings, esM>>

\* StorageExtModel.declareComponentConstraints, lines 291-417.
declareComponentConstraints ==
    /\ RunAt("variables")
    /\ pyM' = [pyM EXCEPT
         !.stage = "constraints",
         !.declared = CommonCalls
                      \cup (IF pyM.hasTSA THEN InterPeriodCalls ELSE {})
                      \cup StateOfChargeCalls(pyM.hasTSA),
         !.constraints = IF pyM.hasTSA THEN PreciseConstraints(comp) ELSE {},
         !.equalities = IF pyM.hasTSA THEN InterPeriodConstraints(comp)
                        ELSE {}]
    /\ lastOp' = [op |-> "declareComponentConstraints"]
    /\ UNCHANGED <<args, warnings, comp, esM>>

\* ------------------------------------------------------------ specification
\* The optimization runs of the energy system model.
Next ==
    \/ cluster
    \/ \E hasTSA \in BOOLEAN : ConcreteModel(hasTSA)
    \/ selectView
    \/ declareSets
    \/ declareVariables
    \/ declareComponentConstraints

Spec == Init /\ [][Next]_vars

\* The asset alone: its two view operations called in any order, with any
\* argument.
callSetTimeSeriesData ==
    /\ \E hasTSA \in BOOLEAN : setTimeSeriesData(hasTSA)
    /\ UNCHANGED pyM

callSetAggregatedTimeSeriesData ==
    /\ \E po \in [Periods -> TypicalPeriods] : setAggregatedTimeSeriesData(po)
    /\ UNCHANGED pyM

NextData ==
    \/ callSetTimeSeriesData
    \/ callSetAggregatedTimeSeriesData

SpecData == Init /\ [][NextData]_vars

\* ------------------------------------------------------------ decay factor
\* A selfDischarge in [0, 1) as an exact fraction.
SelfDischargeValues ==
    {[num |-> n, den |-> DecayDenominator] : n \in 0..(DecayDenominator - 1)}

\* A slip of line 203: 1 + selfDischarge.
DecayFactorPlus(selfDischarge, t) ==
    LET k == t * HoursPerTimeStep
    IN  [num |-> (selfDischarge.den + selfDischarge.num) ^ k,
         den |-> selfDischarge.den ^ k]

\* Line 203: (1 - selfDischarge) ** (t * esM.hoursPerTimeStep), as an exact
\* fraction.
DecayFactor(selfDischarge, t) ==
    LET k == t * HoursPerTimeStep
    IN  [num |-> (selfDischarge.den - selfDischarge.num) ^ k,
         den |-> selfDischarge.den ^ k]

\* An asset without series whose selfDischarge is drawn from
\* SelfDischargeValues.
InitDecay ==
    /\ \E sd \in SelfDischargeValues :
         /\ args = [selfDischarge |-> sd]
         /\ comp = [StorageExtInit(
                       [chargeOpRateMax |-> None, chargeOpRateFix |-> None,
                        dischargeOpRateMax |-> None, dischargeOpRateFix |-> None,
                        stateOfChargeOpRateMax |-> None,
                        stateOfChargeOpRateFix |-> None,
                        doPreciseTsaModeling |-> TRUE,
                        isPeriodicalStorage |-> FALSE,
                        hasCapacityVariable |-> TRUE])
                     EXCEPT !.selfDischarge = sd]
    /\ warnings = {}
    /\ esM = [isTimeSeriesDataClustered |-> FALSE,
              periodsOrder |-> [p \in {0} |-> 0]]
    /\ pyM = NoModel
    /\ lastOp = [op |-> "__init__"]

\* The rule SOCMaxPrecise1 evaluates the factor of SOCinter at time step t.
SOCMaxPrecise1Decay ==
    /\ \E t \in TimeStepsPerPeriod :
         lastOp' = [op |-> "SOCMaxPrecise1", t |-> t,
                    factor |-> DecayFactor(comp.selfDischarge, t)]
    /\ UNCHANGED <<args, warnings, comp, esM, pyM>>

NextDecay == SOCMaxPrecise1Decay

SpecDecay == InitDecay /\ [][NextDecay]_vars

\* ================================================================== claims
Supplied(ts) == ts # None

ClassAttr(cls) ==
    CASE cls = "charge" -> "chargeOp"
      [] cls = "discharge" -> "dischargeOp"
      [] cls = "stateOfCharge" -> "stateOfChargeOp"

\* C1: after setTimeSeriesData(hasTSA) the active Max and Fix series of each
\* operation class are that same class's aggregated series when hasTSA is
\* true and that same class's full-resolution series when it is false.
C1_ActiveSeriesOfOwnClass ==
    lastOp.op = "setTimeSeriesData" =>
        \A cls \in Classes : \A k \in Kinds :
            comp.active[cls][k] =
                IF lastOp.hasTSA THEN comp.aggregated[cls][k]
                ELSE comp.full[cls][k]

\* C3: in every state after construction, whatever calls of
\* setAggregatedTimeSeriesData and setTimeSeriesData were made, at most one
\* of the Max and the Fix series of an operation class is set, in the full,
\* in the aggregated and in the active attributes.
C3_AtMostOneOfMaxFix ==
    \A cls \in Classes :
        /\ ~(Supplied(comp.full[cls]["Max"]) /\ Supplied(comp.full[cls]["Fix"]))
        /\ ~(Supplied(comp.aggregated[cls]["Max"])
             /\ Supplied(comp.aggregated[cls]["Fix"]))
        /\ ~(Supplied(comp.active[cls]["Max"])
             /\ Supplied(comp.active[cls]["Fix"]))

\* The asset was given both state-of-charge series, its series were
\* aggregated and the aggregated view is active.
C3_Witness ==
    /\ Supplied(args.stateOfChargeOpRateMax)
    /\ Supplied(args.stateOfChargeOpRateFix)
    /\ lastOp.op = "setTimeSeriesData" /\ lastOp.hasTSA
    /\ Supplied(comp.aggregated["stateOfCharge"]["Fix"])
    /\ Supplied(comp.active["stateOfCharge"]["Fix"])

\* The stored series holds the data of the argument, or both are None.
StoredUnchanged(stored, arg) ==
    IF arg = None THEN stored = None
    ELSE /\ stored # None
         /\ stored.data = arg.data
         /\ stored.columns = arg.columns
         /\ ~stored.aggregated

BothSOCSeries ==
    Supplied(args.stateOfChargeOpRateMax) /\ Supplied(args.stateOfChargeOpRateFix)

\* C4: when both state-of-charge series are passed to the constructor the Fix
\* series is kept, the Max series is stored as None and the warning is
\* issued; otherwise each series is stored as passed and the warning is not
\* issued.
C4_FixWinsOverMax ==
    /\ BothSOCSeries =>
         /\ StoredUnchanged(comp.full["stateOfCharge"]["Fix"],
                            args.stateOfChargeOpRateFix)
         /\ comp.full["stateOfCharge"]["Max"] = None
         /\ "stateOfChargeOpRateMaxSetToNone" \in warnings
    /\ ~BothSOCSeries =>
         /\ StoredUnchanged(comp.full["stateOfCharge"]["Fix"],
                            args.stateOfChargeOpRateFix)
         /\ StoredUnchanged(comp.full["stateOfCharge"]["Max"],
                            args.stateOfChargeOpRateMax)
         /\ "stateOfChargeOpRateMaxSetToNone" \notin warnings

\* Construction with both series has completed.
C4_Witness ==
    /\ lastOp.op = "__init__"
    /\ BothSOCSeries
    /\ comp.full["stateOfCharge"]["Max"] = None
    /\ Supplied(comp.full["stateOfCharge"]["Fix"])
    /\ "stateOfChargeOpRateMaxSetToNone" \in warnings

\* C5: a state-of-charge Fix series forces doPreciseTsaModeling and
\* isPeriodicalStorage to true, with a warning for each flag passed as false
\* and none for a flag passed as true; without any state-of-charge series
\* both flags keep the values passed.
C5_FixForcesFlags ==
    /\ Supplied(args.stateOfChargeOpRateFix) =>
         /\ comp.doPreciseTsaModeling
         /\ comp.isPeriodicalStorage
         /\ ~args.doPreciseTsaModeling => "modelingSetToPrecise" \in warnings
         /\ ~args.isPeriodicalStorage =>
              "setToIsPeriodicalStorage" \in warnings
    /\ args.doPreciseTsaModeling =>
         /\ comp.doPreciseTsaModeling
         /\ "modelingSetToPrecise" \notin warnings
    /\ args.isPeriodicalStorage =>
         /\ comp.isPeriodicalStorage
         /\ "setToIsPeriodicalStorage" \notin warnings
    /\ (~Supplied(args.stateOfChargeOpRateFix)
        /\ ~Supplied(args.stateOfChargeOpRateMax)) =>
         /\ comp.doPreciseTsaModeling = args.doPreciseTsaModeling
         /\ comp.isPeriodicalStorage = args.isPeriodicalStorage

\* Construction with a Fix series and both flags passed as false has
\* completed.
C5_Witness ==
    /\ lastOp.op = "__init__"
    /\ Supplied(args.stateOfChargeOpRateFix)
    /\ ~args.doPreciseTsaModeling /\ ~args.isPeriodicalStorage
    /\ comp.doPreciseTsaModeling /\ comp.isPeriodicalStorage
    /\ {"modelingSetToPrecise", "setToIsPeriodicalStorage"} \subseteq warnings

\* The index sets of an operation class in the model container.
SetsOfClass(cls) == pyM.sets[ClassAttr(cls) \o "ConstrSet"]

RateBoundSet(cls) == SetsOfClass(cls)[1]
MaxBoundSet(cls) == SetsOfClass(cls)[3] \cup SetsOfClass(cls)[5]
FixEqualitySet(cls) == SetsOfClass(cls)[2] \cup SetsOfClass(cls)[4]

SetsDeclared == pyM.stage \in {"sets", "variables", "constraints"}

\* C2: once the index sets are declared, in a run on the full view as in a
\* run on the aggregated view, every (location, asset) pair of every
\* operation class is in exactly one of the rate-bound, max-bound and
\* fix-equality sets: in the rate-bound set without an active series, in the
\* max-bound set with an active Max series, in the fix-equality set with an
\* active Fix series; the sets are pairwise disjoint and cover the domain.
C2_SparsityPartition ==
    SetsDeclared =>
        \A cls \in Classes :
            /\ RateBoundSet(cls) \cap MaxBoundSet(cls) = {}
            /\ RateBoundSet(cls) \cap FixEqualitySet(cls) = {}
            /\ MaxBoundSet(cls) \cap FixEqualitySet(cls) = {}
            /\ RateBoundSet(cls) \cup MaxBoundSet(cls) \cup FixEqualitySet(cls)
                 = operationVarSet
            /\ \A pair \in operationVarSet :
                 /\ (~Supplied(comp.active[cls]["Max"])
                     /\ ~Supplied(comp.active[cls]["Fix"]))
                      => pair \in RateBoundSet(cls)
                 /\ Supplied(comp.active[cls]["Max"])
                      => pair \in MaxBoundSet(cls)
                 /\ Supplied(comp.active[cls]["Fix"])
                      => pair \in FixEqualitySet(cls)

\* declareSets has run on the aggregated view of an asset with a
\* state-of-charge Fix series and a charge Max series.
C2_Witness ==
    /\ lastOp.op = "declareSets"
    /\ pyM.hasTSA
    /\ Supplied(comp.active["stateOfCharge"]["Fix"])
    /\ comp.active["stateOfCharge"]["Fix"].aggregated
    /\ FixEqualitySet("stateOfCharge") = operationVarSet
    /\ MaxBoundSet("charge") = operationVarSet

JustDeclared == lastOp.op = "declareComponentConstraints"

\* The instances declared for a pair at (p, t) under the names in names.
InstancesAt(names, pair, p, t) ==
    {c \in pyM.constraints :
        /\ c.name \in names
        /\ c.loc = pair[1] /\ c.compName = pair[2]
        /\ c.pInter = p /\ c.t = t}

\* SOC_inter[loc, asset, p] * (1 - selfDischarge)^(t * hoursPerTimeStep)
\*   + SOC_intra[loc, asset, periodsOrder[p], t]
IsDecomposedLhs(c, pair, p, t) ==
    /\ c.lhs.inter = <<pair[1], pair[2], p>>
    /\ c.lhs.decay.selfDischarge = comp.selfDischarge
    /\ c.lhs.decay.exponent = t * HoursPerTimeStep
    /\ c.lhs.intra = <<pair[1], pair[2], esM.periodsOrder[p], t>>

\* C6: under TSA, for every pair of the state-of-charge rate-bound set whose
\* asset models precisely, every real period p and every time step t, the
\* constraint declared is SOC_inter[p] * decay(t) + SOC_intra[periodsOrder[p],
\* t] <= capacity * stateOfChargeMax.
C6_PreciseRateBound ==
    (JustDeclared /\ pyM.hasTSA /\ comp.doPreciseTsaModeling) =>
        \A pair \in RateBoundSet("stateOfCharge") :
            \A p \in Periods : \A t \in TimeStepsPerPeriod :
                LET cs == InstancesAt({"ConstrSOCMaxPrecise1"}, pair, p, t)
                IN  /\ Cardinality(cs) = 1
                    /\ \A c \in cs :
                         /\ IsDecomposedLhs(c, pair, p, t)
                         /\ c.rel = "<="
                         /\ c.capVar
                         /\ c.term = "stateOfChargeMax"

\* The rate-bound constraints were declared under TSA with a real period
\* that is not its own typical period.
C6_Witness ==
    /\ JustDeclared /\ pyM.hasTSA /\ comp.doPreciseTsaModeling
    /\ RateBoundSet("stateOfCharge") = operationVarSet
    /\ \E p \in Periods : esM.periodsOrder[p] # p
    /\ \E c \in pyM.constraints : c.name = "ConstrSOCMaxPrecise1" /\ c.t > 0

SeriesNames ==
    {"ConstrSOCMaxPrecise2", "ConstrSOCMaxPrecise3", "ConstrSOCMaxPrecise4",
     "ConstrSOCMaxPrecise5"}

AllNames == SeriesNames \cup {"ConstrSOCMaxPrecise1"}

\* The instance c states lhs rel capacity * series[loc][periodsOrder[p], t]
\* when the asset has a capacity variable, lhs rel series[...] when not.
IsSeriesInstance(c, rel, series, pair, p, t) ==
    /\ IsDecomposedLhs(c, pair, p, t)
    /\ c.rel = rel
    /\ c.capVar = comp.hasCapacityVariable
    /\ c.term = "series"
    /\ c.series = series
    /\ c.at = <<pair[1], esM.periodsOrder[p], t>>

\* C7: under TSA with precise modeling a pair with a state-of-charge Fix
\* series gets an equality and a pair with a Max series a <= bound, each with
\* the decomposed left-hand side and with capacity * series (capacity
\* variable) or the series alone (no capacity variable) on the right; a Max
\* pair gets no equality and a Fix pair never only an inequality.
C7_SeriesVariants ==
    (JustDeclared /\ pyM.hasTSA /\ comp.doPreciseTsaModeling) =>
        \A pair \in operationVarSet :
            \A p \in Periods : \A t \in TimeStepsPerPeriod :
                LET fix == comp.active["stateOfCharge"]["Fix"]
                    max == comp.active["stateOfCharge"]["Max"]
                    cs == InstancesAt(AllNames, pair, p, t)
                IN  /\ Supplied(fix) =>
                         \E c \in cs :
                             IsSeriesInstance(c, "==", fix, pair, p, t)
                    /\ Supplied(max) =>
                         /\ \E c \in cs :
                                IsSeriesInstance(c, "<=", max, pair, p, t)
                         /\ \A c \in cs : c.rel # "=="

\* The constraints of an asset with an aggregated Fix series and a capacity
\* variable were declared under TSA.
C7_Witness ==
    /\ JustDeclared /\ pyM.hasTSA /\ comp.doPreciseTsaModeling
    /\ comp.hasCapacityVariable
    /\ Supplied(comp.active["stateOfCharge"]["Fix"])
    /\ \E c \in pyM.constraints : c.rel = "==" /\ c.capVar /\ c.t > 0

\* The five index sets a derivation from the series max and fix gives.
SetsFromView(max, fix) ==
    [i \in 1..5 |->
       IF \/ i = 1 /\ ~Supplied(max) /\ ~Supplied(fix)
          \/ i = 2 /\ Supplied(fix) /\ comp.hasCapacityVariable
          \/ i = 3 /\ Supplied(max) /\ comp.hasCapacityVariable
          \/ i = 4 /\ Supplied(fix) /\ ~comp.hasCapacityVariable
          \/ i = 5 /\ Supplied(max) /\ ~comp.hasCapacityVariable
       THEN operationVarSet ELSE {}]

MethodsDeclared == {c.method : c \in pyM.declared}

StateOfChargeModesDeclared ==
    {c.method : c \in {d \in pyM.declared : d.opVarName = "stateOfCharge"}}

FiveModes ==
    {"operationMode1", "operationMode2", "operationMode3", "operationMode4",
     "operationMode5"}

TSAMethods ==
    {"connectInterPeriodSOC", "intraSOCstart", "equalInterSOC",
     "limitSOCwithSimpleTsa", "operationModeSOCwithTSA1",
     "operationModeSOCwithTSA2", "operationModeSOCwithTSA3",
     "operationModeSOCwithTSA4", "operationModeSOCwithTSA5",
     "minSOCwithTSAprecise"}

\* C9: a run of declareComponentConstraints declares one family of
\* state-of-charge limits: without TSA the operation modes on the state of
\* charge and minSOC and none of the TSA constraints, under TSA the TSA
\* constraints with minSOCwithTSAprecise and neither the operation modes on
\* the state of charge nor minSOC; the charge and discharge operation modes,
\* cyclicState and cyclicLifetime are declared in both cases.
C9_OneStateOfChargeFamily ==
    pyM.stage = "constraints" =>
        /\ {"cyclicState", "cyclicLifetime"} \subseteq MethodsDeclared
        /\ \A v \in {"chargeOp", "dischargeOp"} :
             {c.method : c \in {d \in pyM.declared : d.opVarName = v}}
               = FiveModes
        /\ ~pyM.hasTSA =>
             /\ StateOfChargeModesDeclared = FiveModes
             /\ "minSOC" \in MethodsDeclared
             /\ MethodsDeclared \cap TSAMethods = {}
             /\ pyM.constraints = {} /\ pyM.equalities = {}
        /\ pyM.hasTSA =>
             /\ TSAMethods \subseteq MethodsDeclared
             /\ StateOfChargeModesDeclared = {}
             /\ "minSOC" \notin MethodsDeclared

\* The constraints of a run under TSA were declared.
C9_Witness ==
    /\ JustDeclared /\ pyM.hasTSA
    /\ "minSOCwithTSAprecise" \in MethodsDeclared
    /\ pyM.constraints # {}

\* The values the inter-period state of charge takes at the period
\* boundaries of one location, two values being enough to tell them apart.
InterAssignments == [InterPeriods -> {0, 1}]

Satisfies(v, loc) ==
    \A e \in pyM.equalities :
        (e.loc = loc /\ e.compName = compName) => v[e.left] = v[e.right]

\* C10: for a periodical storage under TSA every assignment satisfying the
\* declared constraints gives all inter-period state-of-charge variables of
\* the asset at a location the same value, whatever the number of real
\* periods and their mapping to typical periods.
C10_PeriodicityCollapse ==
    (pyM.stage = "constraints" /\ pyM.hasTSA /\ comp.isPeriodicalStorage) =>
        \A loc \in Locs : \A v \in InterAssignments :
            Satisfies(v, loc) => \A a, b \in InterPeriods : v[a] = v[b]

\* The constraints of a periodical storage were declared under TSA with two
\* real periods mapped to the same typical period.
C10_Witness ==
    /\ JustDeclared /\ pyM.hasTSA /\ comp.isPeriodicalStorage
    /\ pyM.equalities # {}
    /\ \E p, q \in Periods : p # q /\ esM.periodsOrder[p] = esM.periodsOrder[q]

\* a < b for two fractions whose denominators are powers of one number.
FractionLess(a, b) ==
    IF a.den >= b.den THEN a.num < b.num * (a.den \div b.den)
    ELSE a.num * (b.den \div a.den) < b.num

\* C11: for selfDischarge > 0 the factor (1 - selfDischarge)^(t *
\* hoursPerTimeStep) of SOC_inter is strictly decreasing in the time step t,
\* and at t = 0 it is 1.
C11_DecayDecreasing ==
    lastOp.op = "SOCMaxPrecise1" =>
        /\ lastOp.t = 0 => lastOp.factor.num = lastOp.factor.den
        /\ comp.selfDischarge.num > 0 =>
             \A u \in TimeStepsPerPeriod :
                 u > lastOp.t =>
                     FractionLess(DecayFactor(comp.selfDischarge, u),
                                  lastOp.factor)

\* The factor was evaluated at the first time step for a positive
\* selfDischarge, and there is a later time step to compare with.
C11_Witness ==
    /\ lastOp.op = "SOCMaxPrecise1"
    /\ lastOp.t = 0
    /\ comp.selfDischarge.num > 0
    /\ lastOp.factor.num = lastOp.factor.den
    /\ \E u \in TimeStepsPerPeriod : u > 0

\* The model container is being formulated: the view is selected and
\* declareSets, declareVariables or declareComponentConstraints runs next.
Formulating == pyM.stage \in {"view", "sets", "variables"}

\* The step only adds to the model container.
ContainerGrows ==
    /\ pyM'.hasTSA = pyM.hasTSA
    /\ pyM.sets # None => pyM'.sets = pyM.sets
    /\ pyM.variables \subseteq pyM'.variables
    /\ pyM.declared \subseteq pyM'.declared
    /\ pyM.constraints \subseteq pyM'.constraints
    /\ pyM.equalities \subseteq pyM'.equalities

\* C12: declareSets, declareVariables and declareComponentConstraints (with
\* the operationModeSOCwithTSA1..5 it calls) leave every attribute of the
\* asset unchanged and only add sets, variables and constraints to the model
\* container.
C12_FormulationFrame ==
    [][Formulating => /\ comp' = comp
                      /\ esM' = esM
                      /\ ContainerGrows]_vars

\* Under TSA the constraints of an asset with a state-of-charge series,
\* passed without precise modelling, have been formulated.
C12_Witness ==
    /\ lastOp.op = "declareComponentConstraints"
    /\ pyM.hasTSA
    /\ pyM.constraints # {}
    /\ pyM.sets # None
    /\ pyM.variables # {}
    /\ ~args.doPreciseTsaModeling
    /\ Supplied(args.stateOfChargeOpRateFix)

\* The series of class cls that the aggregation input should hold: the
\* full-resolution Fix series, or else the full-resolution Max series.
FullSeriesOf(cls) ==
    IF comp.full[cls]["Fix"] # None THEN comp.full[cls]["Fix"]
    ELSE comp.full[cls]["Max"]

\* C13: for every operation class getDataForTimeSeriesAggregation contributes
\* the class's full-resolution Fix or Max series whenever one was supplied at
\* construction, whatever view is active and whether or not setTimeSeriesData
\* has been called; hence every series setAggregatedTimeSeriesData reads back
\* was contributed, and it does not raise.
C13_AggregationRoundTrip ==
    /\ \A cls \in Classes :
         FullSeriesOf(cls) # None =>
             /\ rateName(cls) \in DOMAIN getDataForTimeSeriesAggregation(comp)
             /\ getDataForTimeSeriesAggregation(comp)[rateName(cls)]
                    = FullSeriesOf(cls)
    /\ lastOp.op = "setAggregatedTimeSeriesData" => ~lastOp.raised

\* The relation a series of kind k is enforced with.
RelOfKind(k) == IF k = "Fix" THEN "==" ELSE "<="

\* C14: an asset constructed with a state-of-charge Max or Fix series has
\* doPreciseTsaModeling true after construction, so under TSA the precise
\* series constraints are not skipped: every state-of-charge series the asset
\* holds is enforced, aggregated, by a constraint for every pair at every
\* (period, time step).
C14_SeriesNeverDropped ==
    /\ (Supplied(args.stateOfChargeOpRateMax)
        \/ Supplied(args.stateOfChargeOpRateFix)) => comp.doPreciseTsaModeling
    /\ (JustDeclared /\ pyM.hasTSA) =>
         \A k \in Kinds :
             Supplied(comp.full["stateOfCharge"][k]) =>
                 \A pair \in operationVarSet :
                     \A p \in Periods : \A t \in TimeStepsPerPeriod :
                         \E c \in InstancesAt(SeriesNames, pair, p, t) :
                             /\ c.rel = RelOfKind(k)
                             /\ c.term = "series"
                             /\ c.series # None
                             /\ c.series.aggregated
                             /\ c.series.data
                                  = comp.full["stateOfCharge"][k].data
                             /\ c.at = <<pair[1], esM.periodsOrder[p], t>>

\* The constraints of an asset constructed with a Max series only and
\* without precise modelling were declared under TSA.
C14_Witness ==
    /\ JustDeclared /\ pyM.hasTSA
    /\ ~args.doPreciseTsaModeling
    /\ Supplied(args.stateOfChargeOpRateMax)
    /\ ~Supplied(args.stateOfChargeOpRateFix)
    /\ \E c \in pyM.constraints :
           /\ c.name \in {"ConstrSOCMaxPrecise3", "ConstrSOCMaxPrecise5"}
           /\ c.rel = "<="

\* The asset c after a call of setTimeSeriesData(hasTSA).
AfterSetTimeSeriesData(c, hasTSA) ==
    [c EXCEPT !.active = ActiveViews(c, hasTSA)]

\* C15: setTimeSeriesData changes only the six active series attributes and
\* leaves the full-resolution and the aggregated series unchanged; a second
\* call with the same hasTSA gives the state of the first; and
\* setTimeSeriesData(true) followed by setTimeSeriesData(false) leaves every
\* active series equal to the corresponding full-resolution series.
C15_ViewSelectionOnly ==
    [][lastOp'.op = "setTimeSeriesData" =>
          /\ comp' = [comp EXCEPT !.active = comp'.active]
          /\ comp'.full = comp.full
          /\ comp'.aggregated = comp.aggregated
          /\ esM' = esM
          /\ AfterSetTimeSeriesData(comp', lastOp'.hasTSA) = comp'
          /\ lastOp'.hasTSA =>
                AfterSetTimeSeriesData(comp', FALSE).active = comp'.full]_vars

\* setTimeSeriesData(true) ran on an asset with aggregated charge, discharge
\* and state-of-charge series, and the call setTimeSeriesData(false) that
\* follows restores the full-resolution series.
C15_Witness ==
    /\ lastOp.op = "setTimeSeriesData" /\ lastOp.hasTSA
    /\ \A cls \in Classes :
           \E k \in Kinds : /\ Supplied(comp.full[cls][k])
                            /\ Supplied(comp.aggregated[cls][k])
    /\ comp.active # comp.full
    /\ AfterSetTimeSeriesData(comp, FALSE).active = comp.full

====
